---- MODULE Spec2Model ----
(***************************************************************************)
(* A model of the halal-stock-bot core:                                    *)
(*   - Market.status with _next_open / _next_close (market_status.py),     *)
(*   - the cached-signal refresh guard of the chat handlers (handlers.py), *)
(*   - SignalEngine.generate's filter / rank / truncate (signals.py),      *)
(*   - the RSI(14) computation (signals.py).                               *)
(* Each part has its own specification (SpecMarket, SpecRefresh,           *)
(* SpecGenerate, SpecRSI); the variables of the other parts stay parked.   *)
(***************************************************************************)
EXTENDS Integers, Sequences, FiniteSets

VARIABLES
    \* ---- Market.status -------------------------------------------------
    weekend,        \* Market.weekend: set of non-trading weekday indices
    timezone,       \* Market.timezone, as its UTC offset in minutes
    open_time,      \* Market.open_time, minutes after local midnight
    close_time,     \* Market.close_time, minutes after local midnight
    now,            \* the reference instant, minutes on the UTC time line
    mpc,            \* position inside Market.status
    branch,         \* which return statement of Market.status is being built
    local_now,      \* now.astimezone(self.timezone), local wall-clock minutes
    days_ahead,     \* loop counter of _next_open
    days,           \* loop counter of _next_close
    is_open,        \* MarketStatus.is_open
    next_open,      \* MarketStatus.next_open  (local wall-clock minutes)
    next_close,     \* MarketStatus.next_close (local wall-clock minutes)
    \* ---- handlers: the cached signal batch ------------------------------
    clock,                \* datetime.utcnow(), in seconds
    ticks,                \* how often the clock has advanced (model bound)
    latest_signals,       \* BotState.latest_signals: the batch, named by the
                          \* generate() call that returned it (0: the initial [])
    last_signal_refresh,  \* BotState.last_signal_refresh: None or Some(seconds)
    stamp_gen,            \* history: the refresh that wrote last_signal_refresh
    hpc,                  \* each concurrently handled command's position
    hnow,                 \* each handler's local `now` while it awaits generate()
    hgen,                 \* history: the number of each handler's generate() call
    fetch_starts,         \* history: when each generate() call was started
    \* ---- SignalEngine.generate ------------------------------------------
    request,        \* the `tickers` argument of generate
    max_signals,    \* the `max_signals` argument of generate
    gpc,            \* position inside generate
    tickers,        \* the local `tickers`: the request, uppercased
    gidx,           \* position of the `for ticker in tickers` loop
    signals,        \* the local list `signals`
    result,         \* what generate returns
    \* ---- _build_signal / _rsi -------------------------------------------
    close,          \* df["Close"] of one ticker, oldest bar first
    turns,          \* how often the series changed direction (model bound)
    spc,            \* position inside _build_signal
    current_rsi     \* float(rsi.iloc[-1]), an exact fraction [num, den]

mvars == <<weekend, timezone, open_time, close_time, now, mpc, branch,
           local_now, days_ahead, days, is_open, next_open, next_close>>

rvars == <<clock, ticks, latest_signals, last_signal_refresh, stamp_gen,
           hpc, hnow, hgen, fetch_starts>>

gvars == <<request, max_signals, gpc, tickers, gidx, signals, result>>

svars == <<close, turns, spc, current_rsi>>

vars == <<mvars, rvars, gvars, svars>>

\* Python's None, and a value that is not None (an Optional field)
None == << >>

Some(x) == <<x>>

Get(o) == o[1]

\* ------------------------------------------------------------------------
\* The handlers of one application share one BotState (register, bot.py).
\* ------------------------------------------------------------------------
\* commands handled concurrently (concurrent_updates(True))
NumHandlers == 2

Handlers == 1 .. NumHandlers

\* generate() calls started in one run of the model
MaxRefreshes == 3

\* clock advances in one run of the model
MaxTicks == 3

\* BotState as built by main(): latest_signals = [], last_signal_refresh = None
InitState ==
    /\ clock = 0
    /\ ticks = 0
    /\ latest_signals = [gen |-> 0]
    /\ last_signal_refresh = None
    /\ stamp_gen = 0
    /\ hpc = [h \in Handlers |-> "idle"]
    /\ hnow = [h \in Handlers |-> 0]
    /\ hgen = [h \in Handlers |-> 0]
    /\ fetch_starts = << >>

RefreshParked == InitState

GenerateParked ==
    /\ request = << >>
    /\ max_signals = 5
    /\ gpc = "parked"
    /\ tickers = << >>
    /\ gidx = 0
    /\ signals = << >>
    /\ result = << >>

RsiParked ==
    /\ close = << >>
    /\ turns = 0
    /\ spc = "parked"
    /\ current_rsi = None

\* ------------------------------------------------------------------------
\* Calendar arithmetic.  A local wall-clock value is day * MinutesPerDay +
\* minute-of-day; Python's weekday() has Monday = 0, and day 0 is a Monday.
\* ------------------------------------------------------------------------
MinutesPerDay == 24 * 60

Weekdays == 0 .. 6

\* timedelta(days = n)
timedelta_days(n) == n * MinutesPerDay

\* datetime.date(): the local day number
date(dt) == dt \div MinutesPerDay

\* datetime.weekday()
weekday(dt) == date(dt) % 7

\* timezone.localize(datetime.combine(d, t))
combine(d, t) == d * MinutesPerDay + t

\* now.astimezone(tz): the wall clock of zone tz at a UTC instant (zones are
\* taken at a fixed UTC offset; daylight-saving transitions are not modelled)
astimezone(utc, tz) == utc + tz

\* the UTC instant of an aware local datetime (what comparisons between
\* aware datetimes of different zones compare)
Instant(dt, tz) == dt - tz

\* ------------------------------------------------------------------------
\* Inputs of Market.status
\* ------------------------------------------------------------------------
\* sessions of _default_markets: NYSE/NASDAQ/TSX, LSE, BSE, DFM
\* (UTC offsets are the zones' standard-time offsets)
Sessions ==
    { [tz |-> -300, open |-> 570, close |-> 960],
      [tz |-> 0,    open |-> 480, close |-> 990],
      [tz |-> 330,  open |-> 555, close |-> 930],
      [tz |-> 240,  open |-> 600, close |-> 840] }

\* local times of day tried as the reference, around a session's boundaries
RefTimes(s) ==
    { 0, s.open - 1, s.open, s.open + 1, 720,
      s.close - 1, s.close, s.close + 1, 1200, MinutesPerDay - 1 }

\* local day numbers tried as the reference: one full week
RefDays == 7 .. 13

\* cap of the day-by-day searches in the model (the code has none)
MaxDaysAhead == 9

InitMarket ==
    /\ weekend \in SUBSET Weekdays
    /\ \E s \in Sessions :
         /\ timezone = s.tz
         /\ open_time = s.open
         /\ close_time = s.close
         /\ \E d \in RefDays, t \in RefTimes(s) :
              now = Instant(combine(d, t), s.tz)
    /\ mpc = "status"
    /\ branch = "none"
    /\ local_now = 0
    /\ days_ahead = 0
    /\ days = 0
    /\ is_open = FALSE
    /\ next_open = 0
    /\ next_close = 0
    /\ RefreshParked
    /\ GenerateParked
    /\ RsiParked

\* ------------------------------------------------------------------------
\* Market.status
\* ------------------------------------------------------------------------
opens_today == combine(date(local_now), open_time)

closes_today == combine(date(local_now), close_time)

\* line 24
is_weekend(dt) == weekday(dt) \in weekend

\* line 28: the first `if` of Market.status
ClosedEarly(dt, opens) == is_weekend(dt) \/ dt < opens

\* a variant of InSession that shuts the session at the close instant itself
InSessionCloseExclusive(dt, opens, closes) == opens <= dt /\ dt < closes

\* line 35: the second `if` of Market.status
InSession(dt, opens, closes) == opens <= dt /\ dt <= closes

\* line 32: next_close of the first return statement
EarlyNextClose(dt, opens, closes) == IF dt < opens THEN opens ELSE closes

\* lines 23-39, up to the call of _next_open that every branch makes first
StatusCall ==
    /\ mpc = "status"
    /\ local_now' = astimezone(now, timezone)
    /\ LET ln == astimezone(now, timezone)
           ot == combine(date(ln), open_time)
           ct == combine(date(ln), close_time)
       IN  branch' = IF ClosedEarly(ln, ot) THEN "closed_early"
                     ELSE IF InSession(ln, ot, ct) THEN "open"
                     ELSE "after_close"
    /\ days_ahead' = 0
    /\ mpc' = "next_open"
    /\ UNCHANGED <<weekend, timezone, open_time, close_time, now,
                   days, is_open, next_open, next_close>>
    /\ UNCHANGED <<rvars, gvars, svars>>

\* lines 54-57: does the candidate day end the search of _next_open?
candidate_open(reference, n) ==
    combine(date(reference) + n, open_time)

\* a variant of NextOpenFound that accepts an open equal to the reference
NextOpenFoundNotStrict(reference, n) ==
    /\ weekday(candidate_open(reference, n)) \notin weekend
    /\ candidate_open(reference, n) >= reference

NextOpenFound(reference, n) ==
    /\ weekday(candidate_open(reference, n)) \notin weekend
    /\ candidate_open(reference, n) > reference

\* line 59: one more turn of the `while True` of _next_open
NextOpenIter ==
    /\ mpc = "next_open"
    /\ ~ NextOpenFound(local_now, days_ahead)
    /\ days_ahead < MaxDaysAhead
    /\ days_ahead' = days_ahead + 1
    /\ UNCHANGED <<weekend, timezone, open_time, close_time, now, mpc, branch,
                   local_now, days, is_open, next_open, next_close>>
    /\ UNCHANGED <<rvars, gvars, svars>>

\* line 58 and the rest of the return statement that called _next_open
NextOpenReturn ==
    /\ mpc = "next_open"
    /\ NextOpenFound(local_now, days_ahead)
    /\ next_open' = candidate_open(local_now, days_ahead)
    /\ CASE branch = "closed_early" ->
              /\ is_open' = FALSE
              /\ next_close' = EarlyNextClose(local_now, opens_today, closes_today)
              /\ mpc' = "done"
         [] branch = "open" ->
              /\ is_open' = TRUE
              /\ next_close' = closes_today
              /\ mpc' = "done"
         [] OTHER ->
              /\ mpc' = "next_close"
              /\ UNCHANGED <<is_open, next_close>>
    /\ UNCHANGED <<weekend, timezone, open_time, close_time, now, branch,
                   local_now, days_ahead, days>>
    /\ UNCHANGED <<rvars, gvars, svars>>

\* lines 63-67: entry of _next_close
NextCloseCall ==
    /\ mpc = "next_close"
    /\ IF closes_today > local_now
       THEN /\ next_close' = closes_today
            /\ is_open' = FALSE
            /\ mpc' = "done"
            /\ UNCHANGED days
       ELSE /\ days' = 1
            /\ mpc' = "next_close_loop"
            /\ UNCHANGED <<is_open, next_close>>
    /\ UNCHANGED <<weekend, timezone, open_time, close_time, now, branch,
                   local_now, days_ahead, next_open>>
    /\ UNCHANGED <<rvars, gvars, svars>>

\* lines 69-70
future(reference, n) == reference + timedelta_days(n)

NextCloseFound(reference, n) == weekday(future(reference, n)) \notin weekend

\* line 72
NextCloseIter ==
    /\ mpc = "next_close_loop"
    /\ ~ NextCloseFound(local_now, days)
    /\ days < MaxDaysAhead
    /\ days' = days + 1
    /\ UNCHANGED <<weekend, timezone, open_time, close_time, now, mpc, branch,
                   local_now, days_ahead, is_open, next_open, next_close>>
    /\ UNCHANGED <<rvars, gvars, svars>>

\* line 71 and line 40
NextCloseReturn ==
    /\ mpc = "next_close_loop"
    /\ NextCloseFound(local_now, days)
    /\ next_close' = combine(date(future(local_now, days)), close_time)
    /\ is_open' = FALSE
    /\ mpc' = "done"
    /\ UNCHANGED <<weekend, timezone, open_time, close_time, now, branch,
                   local_now, days_ahead, days, next_open>>
    /\ UNCHANGED <<rvars, gvars, svars>>

NextMarket ==
    \/ StatusCall
    \/ NextOpenIter
    \/ NextOpenReturn
    \/ NextCloseCall
    \/ NextCloseIter
    \/ NextCloseReturn

SpecMarket == InitMarket /\ [][NextMarket]_vars

\* ------------------------------------------------------------------------
\* handlers.py: _maybe_refresh_signals, called by /signals and /info
\* ------------------------------------------------------------------------
SecondsPerDay == 24 * 3600

\* seconds the clock may advance by between two steps
Jumps == {1, 30, 60, SecondsPerDay}

\* timedelta.seconds: the seconds field of the normalised
\* (days, seconds, microseconds) triple, 0 <= seconds < 86400
timedelta_seconds(delta) == delta % SecondsPerDay

\* line 91: the guard that returns without refreshing
GuardSkips(t, last) ==
    /\ last # None
    /\ timedelta_seconds(t - Get(last)) < 60

MarketParked ==
    /\ weekend = {5, 6}
    /\ timezone = 0
    /\ open_time = 0
    /\ close_time = 0
    /\ now = 0
    /\ mpc = "parked"
    /\ branch = "none"
    /\ local_now = 0
    /\ days_ahead = 0
    /\ days = 0
    /\ is_open = FALSE
    /\ next_open = 0
    /\ next_close = 0

InitRefresh ==
    /\ InitState
    /\ MarketParked
    /\ GenerateParked
    /\ RsiParked

\* wall-clock time passes between any two steps of the event loop
Tick(d) ==
    /\ ticks < MaxTicks
    /\ clock' = clock + d
    /\ ticks' = ticks + 1
    /\ UNCHANGED <<latest_signals, last_signal_refresh, stamp_gen,
                   hpc, hnow, hgen, fetch_starts>>
    /\ UNCHANGED <<mvars, gvars, svars>>

\* lines 90-92: now = utcnow(); the guard holds; return
RefreshSkip(h) ==
    /\ hpc[h] = "idle"
    /\ GuardSkips(clock, last_signal_refresh)
    /\ hpc' = [hpc EXCEPT ![h] = "reply"]
    /\ UNCHANGED <<clock, ticks, latest_signals, last_signal_refresh,
                   stamp_gen, hnow, hgen, fetch_starts>>
    /\ UNCHANGED <<mvars, gvars, svars>>

\* lines 90-94 up to the await: now = utcnow(); the guard fails;
\* generate() is called and the coroutine is suspended on the download
RefreshFetch(h) ==
    /\ hpc[h] = "idle"
    /\ ~ GuardSkips(clock, last_signal_refresh)
    /\ Len(fetch_starts) < MaxRefreshes
    /\ hnow' = [hnow EXCEPT ![h] = clock]
    /\ hgen' = [hgen EXCEPT ![h] = Len(fetch_starts) + 1]
    /\ fetch_starts' = Append(fetch_starts, clock)
    /\ hpc' = [hpc EXCEPT ![h] = "fetching"]
    /\ UNCHANGED <<clock, ticks, latest_signals, last_signal_refresh, stamp_gen>>
    /\ UNCHANGED <<mvars, gvars, svars>>

\* a variant of GenerateReturns that stores the batch and leaves the
\* timestamp for a later step
GenerateReturnsBatchOnly(h) ==
    /\ hpc[h] = "fetching"
    /\ latest_signals' = [gen |-> hgen[h]]
    /\ hpc' = [hpc EXCEPT ![h] = "reply"]
    /\ hnow' = [hnow EXCEPT ![h] = 0]
    /\ hgen' = [hgen EXCEPT ![h] = 0]
    /\ UNCHANGED <<clock, ticks, last_signal_refresh, stamp_gen, fetch_starts>>
    /\ UNCHANGED <<mvars, gvars, svars>>

\* lines 94-95: generate() returns; both fields are assigned with no await
\* in between, so no other coroutine runs between the two assignments
GenerateReturns(h) ==
    /\ hpc[h] = "fetching"
    /\ latest_signals' = [gen |-> hgen[h]]
    /\ last_signal_refresh' = Some(hnow[h])
    /\ stamp_gen' = hgen[h]
    /\ hpc' = [hpc EXCEPT ![h] = "reply"]
    /\ hnow' = [hnow EXCEPT ![h] = 0]
    /\ hgen' = [hgen EXCEPT ![h] = 0]
    /\ UNCHANGED <<clock, ticks, fetch_starts>>
    /\ UNCHANGED <<mvars, gvars, svars>>

\* line 94: the download raises (signals.py line 56 catches nothing); the
\* exception leaves _maybe_refresh_signals and the handler
GenerateRaises(h) ==
    /\ hpc[h] = "fetching"
    /\ hpc' = [hpc EXCEPT ![h] = "idle"]
    /\ hnow' = [hnow EXCEPT ![h] = 0]
    /\ hgen' = [hgen EXCEPT ![h] = 0]
    /\ UNCHANGED <<clock, ticks, latest_signals, last_signal_refresh,
                   stamp_gen, fetch_starts>>
    /\ UNCHANGED <<mvars, gvars, svars>>

\* handlers.py lines 58-64 and 78-82: the handler reads state.latest_signals
\* and replies
Reply(h) ==
    /\ hpc[h] = "reply"
    /\ hpc' = [hpc EXCEPT ![h] = "idle"]
    /\ UNCHANGED <<clock, ticks, latest_signals, last_signal_refresh,
                   stamp_gen, hnow, hgen, fetch_starts>>
    /\ UNCHANGED <<mvars, gvars, svars>>

NextRefresh ==
    \/ \E d \in Jumps : Tick(d)
    \/ \E h \in Handlers : RefreshSkip(h)
    \/ \E h \in Handlers : RefreshFetch(h)
    \/ \E h \in Handlers : GenerateReturns(h)
    \/ \E h \in Handlers : GenerateRaises(h)
    \/ \E h \in Handlers : Reply(h)

SpecRefresh == InitRefresh /\ [][NextRefresh]_vars

\* ------------------------------------------------------------------------
\* signals.py: SignalEngine.generate
\* ------------------------------------------------------------------------
\* HalalScreener._stocks: the registry's (uppercase) keys
Registry == {"AAPL", "MSFT", "NVDA", "GOOGL", "INTC"}

\* what a request may name: a registry ticker in lower case, registry
\* tickers, and one ticker outside the registry
RequestTickers == {"aapl", "MSFT", "NVDA", "GOOGL", "INTC", "TSLA"}

\* str.upper() on the tickers above
upper(t) == IF t = "aapl" THEN "AAPL" ELSE t

\* _download_data's result: per ticker the frame's bar count and the two
\* figures _build_signal derives from it; GOOGL is absent from the result
Downloaded ==
    [ AAPL |-> [bars |-> 40, percent_change |-> 2,  volume_ratio |-> 1],
      MSFT |-> [bars |-> 40, percent_change |-> 1,  volume_ratio |-> 2],
      NVDA |-> [bars |-> 40, percent_change |-> -1, volume_ratio |-> 2],
      INTC |-> [bars |-> 14, percent_change |-> 4,  volume_ratio |-> 3],
      TSLA |-> [bars |-> 40, percent_change |-> 5,  volume_ratio |-> 3] ]

\* longest request of the model
MaxTickers == 4

\* values of max_signals tried (5 is the default)
MaxSignalsInputs == {-1, 0, 1, 2, 5}

\* df.tail(40)
TailBars == 40

\* `if len(close) < 15: raise ValueError`
MinBars == 15

Min(a, b) == IF a <= b THEN a ELSE b

Max(a, b) == IF a >= b THEN a ELSE b

\* lines 59-68: does the loop body reach signals.append for this ticker?
\* (registry miss, no frame or an empty one, _build_signal raising)
Appends(t) ==
    /\ upper(t) \in Registry
    /\ t \in DOMAIN Downloaded
    /\ Downloaded[t].bars > 0
    /\ Min(Downloaded[t].bars, TailBars) >= MinBars

\* the Signal _build_signal returns, cut to the fields generate reads
build_signal(t) ==
    [ ticker |-> t,
      percent_change |-> Downloaded[t].percent_change,
      volume_ratio |-> Downloaded[t].volume_ratio ]

\* line 70: the sort key
score(s) == s.percent_change * s.volume_ratio

\* a variant of InsertDesc that is not stable: the new element goes in
\* front of the elements of equal key
InsertBeforeTies(s, x) ==
    LET k == Cardinality({i \in 1 .. Len(s) : score(s[i]) > score(x)})
    IN  SubSeq(s, 1, k) \o <<x>> \o SubSeq(s, k + 1, Len(s))

\* list.sort(key, reverse=True) is stable: elements of equal key keep their
\* order.  One insertion into a list already sorted that way: the new
\* element goes behind every element whose key is not smaller.
InsertDesc(s, x) ==
    LET k == Cardinality({i \in 1 .. Len(s) : score(s[i]) >= score(x)})
    IN  SubSeq(s, 1, k) \o <<x>> \o SubSeq(s, k + 1, Len(s))

RECURSIVE SortDesc(_)
SortDesc(s) ==
    IF s = << >> THEN << >>
    ELSE InsertDesc(SortDesc(SubSeq(s, 1, Len(s) - 1)), s[Len(s)])

\* line 71: the slice s[:n] (a negative n counts from the end)
SlicePrefix(s, n) ==
    IF n >= 0 THEN SubSeq(s, 1, Min(n, Len(s)))
    ELSE SubSeq(s, 1, Max(Len(s) + n, 0))

Requests ==
    UNION { [1 .. n -> RequestTickers] : n \in 0 .. MaxTickers }

InitGenerate ==
    /\ request \in Requests
    /\ max_signals \in MaxSignalsInputs
    /\ gpc = "call"
    /\ tickers = << >>
    /\ gidx = 0
    /\ signals = << >>
    /\ result = << >>
    /\ MarketParked
    /\ RefreshParked
    /\ RsiParked

\* lines 52-57
GenerateCall ==
    /\ gpc = "call"
    /\ tickers' = [i \in 1 .. Len(request) |-> upper(request[i])]
    /\ IF request = << >>
       THEN /\ result' = << >>
            /\ gpc' = "done"
            /\ UNCHANGED gidx
       ELSE /\ gidx' = 1
            /\ gpc' = "loop"
            /\ UNCHANGED result
    /\ UNCHANGED <<request, max_signals, signals>>
    /\ UNCHANGED <<mvars, rvars, svars>>

\* lines 58-68: a loop turn that ends in `continue`
LoopSkip ==
    /\ gpc = "loop"
    /\ gidx <= Len(tickers)
    /\ ~ Appends(tickers[gidx])
    /\ gidx' = gidx + 1
    /\ UNCHANGED <<request, max_signals, gpc, tickers, signals, result>>
    /\ UNCHANGED <<mvars, rvars, svars>>

\* lines 58-69: a loop turn that appends a signal
LoopAppend ==
    /\ gpc = "loop"
    /\ gidx <= Len(tickers)
    /\ Appends(tickers[gidx])
    /\ signals' = Append(signals, build_signal(tickers[gidx]))
    /\ gidx' = gidx + 1
    /\ UNCHANGED <<request, max_signals, gpc, tickers, result>>
    /\ UNCHANGED <<mvars, rvars, svars>>

\* lines 70-71
SortAndReturn ==
    /\ gpc = "loop"
    /\ gidx > Len(tickers)
    /\ signals' = SortDesc(signals)
    /\ result' = SlicePrefix(SortDesc(signals), max_signals)
    /\ gpc' = "done"
    /\ UNCHANGED <<request, max_signals, tickers, gidx>>
    /\ UNCHANGED <<mvars, rvars, svars>>

NextGenerate ==
    \/ GenerateCall
    \/ LoopSkip
    \/ LoopAppend
    \/ SortAndReturn

SpecGenerate == InitGenerate /\ [][NextGenerate]_vars

\* ------------------------------------------------------------------------
\* signals.py: _build_signal's RSI(14) and _rsi
\* ------------------------------------------------------------------------
\* `rsi = _rsi(close, period=14)`
RsiPeriod == 14

\* most bars of a series in the model
MaxBars == 16

\* most changes of direction of a series in the model
MaxTurns == 2

\* close of the oldest bar, and the close-to-close moves tried
FirstClose == 40

Deltas == {-2, -1, 0, 1, 2}

\* df.tail(n)
tail(series, n) ==
    IF Len(series) <= n THEN series
    ELSE SubSeq(series, Len(series) - n + 1, Len(series))

\* series.diff() at position i >= 2 (position 1 is NaN)
diff(series, i) == series[i] - series[i - 1]

\* delta.clip(lower=0) and -delta.clip(upper=0)
clip_gain(d) == Max(d, 0)

clip_loss(d) == - Min(d, 0)

RECURSIVE SumGain(_, _, _)
SumGain(series, lo, hi) ==
    IF lo > hi THEN 0
    ELSE clip_gain(diff(series, hi)) + SumGain(series, lo, hi - 1)

RECURSIVE SumLoss(_, _, _)
SumLoss(series, lo, hi) ==
    IF lo > hi THEN 0
    ELSE clip_loss(diff(series, hi)) + SumLoss(series, lo, hi - 1)

\* rolling(window=period).mean() at position i: NaN (None) while the window
\* still holds the NaN of diff's position 1; else the mean, kept as the
\* fraction sum / period
rolling_gain(series, period, i) ==
    IF i - period + 1 < 2 THEN None
    ELSE Some([num |-> SumGain(series, i - period + 1, i), den |-> period])

rolling_loss(series, period, i) ==
    IF i - period + 1 < 2 THEN None
    ELSE Some([num |-> SumLoss(series, i - period + 1, i), den |-> period])

\* rs = gain / loss.replace(0, pd.NA); rsi = 100 - (100 / (1 + rs))
\* with gain = g/p and loss = l/p:  rs = g/l,  1 + rs = (l + g)/l,
\* 100 / (1 + rs) = 100 l / (l + g),  rsi = (100 (l + g) - 100 l) / (l + g)
rsi_raw(series, period, i) ==
    LET gain == rolling_gain(series, period, i)
        loss == rolling_loss(series, period, i)
    IN  IF gain = None \/ loss = None THEN None
        ELSE IF Get(loss).num = 0 THEN None
        ELSE LET g == Get(gain).num
                 l == Get(loss).num
             IN  Some([num |-> 100 * (l + g) - 100 * l, den |-> l + g])

\* fillna(method="bfill"): the next valid value at or behind position i
RECURSIVE bfill(_, _, _)
bfill(series, period, i) ==
    IF i > Len(series) THEN None
    ELSE IF rsi_raw(series, period, i) # None THEN rsi_raw(series, period, i)
    ELSE bfill(series, period, i + 1)

\* .fillna(50)
fillna50(v) == IF v = None THEN Some([num |-> 50, den |-> 1]) ELSE v

\* _rsi(series, period) at position i
rsi_at(series, period, i) == fillna50(bfill(series, period, i))

InitRSI ==
    /\ close = <<FirstClose>>
    /\ turns = 0
    /\ spc = "bars"
    /\ current_rsi = None
    /\ MarketParked
    /\ RefreshParked
    /\ GenerateParked

\* the price history grows by one hourly bar
AppendBar(d) ==
    /\ spc = "bars"
    /\ Len(close) < MaxBars
    /\ LET turn == IF Len(close) >= 2 /\ d # diff(close, Len(close))
                   THEN 1 ELSE 0
       IN  /\ turns + turn <= MaxTurns
           /\ turns' = turns + turn
    /\ close' = Append(close, close[Len(close)] + d)
    /\ UNCHANGED <<spc, current_rsi>>
    /\ UNCHANGED <<mvars, rvars, gvars>>

\* lines 96-104: too few bars, ValueError
BuildSignalRaises ==
    /\ spc = "bars"
    /\ Len(tail(close, TailBars)) < MinBars
    /\ spc' = "raised"
    /\ UNCHANGED <<close, turns, current_rsi>>
    /\ UNCHANGED <<mvars, rvars, gvars>>

\* lines 96-110: current_rsi = float(_rsi(close, period=14).iloc[-1])
BuildSignal ==
    /\ spc = "bars"
    /\ Len(tail(close, TailBars)) >= MinBars
    /\ LET c == tail(close, TailBars)
       IN  current_rsi' = Get(rsi_at(c, RsiPeriod, Len(c)))
    /\ spc' = "built"
    /\ UNCHANGED <<close, turns>>
    /\ UNCHANGED <<mvars, rvars, gvars>>

NextRSI ==
    \/ \E d \in Deltas : AppendBar(d)
    \/ BuildSignalRaises
    \/ BuildSignal

SpecRSI == InitRSI /\ [][NextRSI]_vars

\* ========================================================================
\* Properties
\* ========================================================================
\* the reference instant in the session's zone, its local day and time of day
LocalRef == astimezone(now, timezone)

RefDate == LocalRef \div MinutesPerDay

TimeOfDay == LocalRef % MinutesPerDay

TradingDay(d) == (d % 7) \notin weekend

\* the first trading day after day d (some day of the next seven is one
\* unless every weekday is a non-trading day)
NextTradingDay(d) ==
    d + CHOOSE k \in 1 .. 7 :
            /\ TradingDay(d + k)
            /\ \A j \in 1 .. (k - 1) : ~ TradingDay(d + j)

\* C1: for every reference instant and every session whose non-trading set
\* is not all seven weekdays, the status returned has next_open and
\* next_close strictly after the reference instant.
C1_StrictlyFuture ==
    (mpc = "done" /\ weekend # Weekdays) =>
        /\ Instant(next_open, timezone) > now
        /\ Instant(next_close, timezone) > now

\* C2: the day-by-day searches of Market.status end within 7 day steps, for
\* every session: none runs on past a week, also when the non-trading set
\* covers all seven weekdays.
C2_SearchBounded ==
    /\ days_ahead <= 7
    /\ days <= 7

\* supporting property: the searches of a session with at least one trading day
\* never pass 7 day steps
SearchBoundedNonDegenerate ==
    weekend # Weekdays => (days_ahead <= 7 /\ days <= 7)

\* C3: is_open is true exactly when the reference, in the session's zone,
\* is on a trading day and open <= local time <= close.
C3_OpenIffInSession ==
    mpc = "done" =>
        (is_open <=> /\ TradingDay(RefDate)
                     /\ open_time <= TimeOfDay
                     /\ TimeOfDay <= close_time)

\* 12:00 local on a trading day of a 09:30-16:00 session: open, closing at
\* 16:00 the same day
C3_Witness ==
    /\ mpc = "done"
    /\ open_time = 570
    /\ close_time = 960
    /\ TimeOfDay = 720
    /\ TradingDay(RefDate)
    /\ is_open
    /\ next_close = combine(RefDate, 960)

\* C4: next_open is the earliest instant strictly after the reference that
\* is the open time of a trading day.
C4_NearestFutureOpen ==
    mpc = "done" =>
        /\ Instant(next_open, timezone) > now
        /\ next_open % MinutesPerDay = open_time
        /\ TradingDay(next_open \div MinutesPerDay)
        /\ \A d \in (RefDate - 1) .. (RefDate + 7) :
              (TradingDay(d) /\ Instant(combine(d, open_time), timezone) > now)
                  => combine(d, open_time) >= next_open

\* 20:00 local on a Friday, weekend {Sat, Sun}, hours 09:30-16:00: closed,
\* opening 09:30 the following Monday
C4_Witness ==
    /\ mpc = "done"
    /\ weekend = {5, 6}
    /\ open_time = 570
    /\ close_time = 960
    /\ RefDate % 7 = 4
    /\ TimeOfDay = 1200
    /\ ~ is_open
    /\ next_open = combine(RefDate + 3, 570)

\* C9: when the session is reported closed and the local time is not before
\* the day's open time, next_close is the close time of the first trading
\* day after the reference's local date, so never on a non-trading day.
C9_NextScheduledClose ==
    (mpc = "done" /\ ~ is_open /\ TimeOfDay >= open_time) =>
        /\ next_close = combine(NextTradingDay(RefDate), close_time)
        /\ TradingDay(next_close \div MinutesPerDay)

\* C5: no two generate() fetches are started less than 60 seconds apart,
\* and two fetches are never outstanding at the same time.
C5_NoRedundantFetch ==
    /\ Cardinality({h \in Handlers : hpc[h] = "fetching"}) <= 1
    /\ \A i, j \in 1 .. Len(fetch_starts) :
          i < j => fetch_starts[j] - fetch_starts[i] >= 60

\* C6: in every state a handler can observe, the cached batch and the
\* refresh timestamp were written by the same refresh: both are the initial
\* values, or the timestamp is the `now` of the refresh whose batch is cached.
C6_PairedCache ==
    /\ latest_signals.gen = stamp_gen
    /\ (last_signal_refresh = None) <=> (latest_signals.gen = 0)
    /\ latest_signals.gen # 0 =>
          Get(last_signal_refresh) = fetch_starts[latest_signals.gen]

\* two refreshes overlap: the one started second has already replaced the
\* cache while the one started first is still awaiting its download
C6_Witness ==
    /\ latest_signals.gen = 2
    /\ last_signal_refresh # None
    /\ \E h \in Handlers : hpc[h] = "fetching" /\ hgen[h] = 1

\* C10: a call of _maybe_refresh_signals starts a fetch exactly when there
\* was no refresh yet or at least 60 seconds have passed since
\* last_signal_refresh, whatever the gap; otherwise it leaves the cache and
\* the timestamp as they are.
C10_RefreshIffStale ==
    [][\A h \in Handlers :
          (hpc[h] = "idle" /\ hpc'[h] # "idle") =>
              /\ (hpc'[h] = "fetching") <=>
                     (\/ last_signal_refresh = None
                      \/ clock - Get(last_signal_refresh) >= 60)
              /\ (hpc'[h] = "reply") =>
                     UNCHANGED <<latest_signals, last_signal_refresh>>
      ]_vars

\* the positions of the request whose ticker qualifies, and their signals
CandidatePositions ==
    {i \in 1 .. Len(request) : Appends(upper(request[i]))}

SignalAt(i) == build_signal(upper(request[i]))

\* candidate i is ranked before candidate j: a higher score, or the same
\* score and earlier in the request
RankedBefore(i, j) ==
    \/ score(SignalAt(i)) > score(SignalAt(j))
    \/ score(SignalAt(i)) = score(SignalAt(j)) /\ i < j

Rank(i) == 1 + Cardinality({j \in CandidatePositions : RankedBefore(j, i)})

\* result is the first n candidates of that ranking (none when n <= 0)
TopRanked(n) ==
    /\ Len(result) = Min(Max(n, 0), Cardinality(CandidatePositions))
    /\ \A i \in CandidatePositions :
          Rank(i) <= Len(result) => result[Rank(i)] = SignalAt(i)

\* C7 as stated: for every value of max_signals, generate returns the first
\* max_signals candidates in descending score order, ties in request order,
\* so never more than max_signals of them.
C7_TopByScore ==
    gpc = "done" =>
        /\ TopRanked(max_signals)
        /\ Len(result) <= Max(max_signals, 0)

\* C7 amended: the same for every max_signals >= 0.
C7_TopByScoreNonNegative ==
    (gpc = "done" /\ max_signals >= 0) =>
        /\ TopRanked(max_signals)
        /\ Len(result) <= max_signals

\* more candidates than max_signals, and a tie kept in request order:
\* MSFT (1 x 2) was requested before AAPL (2 x 1)
C7_Witness ==
    /\ gpc = "done"
    /\ max_signals = 2
    /\ Cardinality(CandidatePositions) > 2
    /\ Len(result) = 2
    /\ result[1].ticker = "MSFT"
    /\ result[2].ticker = "AAPL"

\* the 14 most recent close-to-close moves of the series
RecentMoves ==
    LET c == tail(close, TailBars)
    IN  {diff(c, i) : i \in (Len(c) - RsiPeriod + 1) .. Len(c)}

\* supporting property: the reported RSI lies in [0, 100]
RsiInRange ==
    spc = "built" =>
        /\ 0 <= current_rsi.num
        /\ current_rsi.num <= 100 * current_rsi.den

\* C8: the reported RSI lies in [0, 100]; it is (near) 100 when the 14 most
\* recent moves are all rises and (near) 0 when they are all falls.
C8_RsiBounds ==
    spc = "built" =>
        /\ 0 <= current_rsi.num
        /\ current_rsi.num <= 100 * current_rsi.den
        /\ (\A d \in RecentMoves : d > 0) =>
               current_rsi.num >= 99 * current_rsi.den
        /\ (\A d \in RecentMoves : d < 0) =>
               current_rsi.num <= 1 * current_rsi.den

====
